---- MODULE Spec2Model ----
(***************************************************************************)
(* Resilience layer of go-down: the circuit breaker (counter variant and   *)
(* sliding-window variant, circuit_break.go), the bulkhead (bulkhead.go)   *)
(* and their composition in PaymentClient.ProcessPayment.                  *)
(*                                                                         *)
(* Time is a discrete clock `now`; every lock-protected section of the     *)
(* code (canAttempt, recordFailure, recordSuccess) and every channel       *)
(* operation is one atomic step, and the callable runs between steps.      *)
(***************************************************************************)
EXTENDS Integers, Sequences, FiniteSets, TLC

\* ---------------------------------------------------------------- bounds
\* Number of concurrent request goroutines.
NCallers == 2
\* The clock runs from 0 to MaxTime.
MaxTime == 5
\* NewCircuitBreaker's arguments and failureWindow, in clock ticks.  The
\* program always configures timeout (30s) >= failureWindow (10s).
FailureThreshold == 2
FailureWindow == 2
Timeout == 3
\* circuit_breaker_failures_total is capped at MaxMetric increments.
MaxMetric == 4
\* NewBulkhead's maxConcurrent; there is one caller more than slots.
MaxConcurrent == 1
\* bulkhead_rejected_total is capped at MaxRejected increments.
MaxRejected == 2
MaxDelay == 2

Callers == 1..NCallers

\* ------------------------------------------------------------- constants
StateClosed == 0
StateOpen == 1
StateHalfOpen == 2

ErrCircuitOpen == "circuit breaker is open"
ErrBulkheadFull == "bulkhead is full"
\* ctx.Err() of a context that is done.
CtxErr == "context canceled"
Nil == "nil"
Zero == "zero"
\* time.Time{}: older than every instant of the clock by more than Timeout
\* and FailureWindow.
ZeroTime == 0 - (Timeout + FailureWindow + 1)
\* The value standing for a gauge child that has not been set yet.
NoSample == 0 - 1
\* Circuit breaker variants of circuit_break.go.
Counter == "counter"
SlidingWindow == "sliding-window"
\* Per-call values: nothing yet, and a call that ended in a panic.
NoOutcome == [result |-> "none", err |-> "none"]
Panic == [result |-> "panic", err |-> "panic"]

\* The two processes that guard a downstream call with a breaker.
OrderService == "order-service"
ApiGateway == "api-gateway"
\* net/http status codes the handlers answer with.
StatusOK == 200
StatusBadRequest == 400
StatusNotFound == 404
StatusInternalServerError == 500
StatusServiceUnavailable == 503
\* No response written yet.
NoResponse == [handler |-> "none", status |-> 0, id |-> "none"]

\* What a callable may return: (result, error).
FnOutcomes ==
  { [result |-> "r1", err |-> Nil], [result |-> "r1", err |-> "e1"] }

VARIABLES
  variant,      \* which CircuitBreaker implementation is compiled in
  cb,           \* the CircuitBreaker: state, failureTimestamps, failureCount,
                \* lastFailureTime
  circuitBreakerState,     \* gauge child of cb.serviceName
  circuitBreakerFailures,  \* counter child of cb.serviceName
  now,          \* the clock
  pc,           \* where each caller is in Execute
  admitted,     \* what the caller's admission check returned
  trial,        \* the call was admitted by an Open->HalfOpen or HalfOpen check
  invoked,      \* how many times Execute invoked the caller's callable
  recorded,     \* the outcomes Execute recorded for the call, in order
  fnOut,        \* what the caller's callable returned
  ret,          \* what Execute returned to the caller
  semaphore,    \* Bulkhead.semaphore: the number of tokens in the channel
  bulkheadActive,    \* gauge child of the pool
  bulkheadRejected,  \* counter child of the pool
  op,           \* the Bulkhead method the caller is in
  ctxDone,      \* whether the context handed to Bulkhead.Execute is done
  sawFull,      \* the channel was full when the caller's select ran
  acquires,     \* tokens the call has sent to the semaphore
  releases,     \* tokens the call has received back from the semaphore
  fnCalls,      \* how many times the bulkhead invoked the call's callable
  semCap,       \* cap(Bulkhead.semaphore)
  observed,     \* what the latest GetState of the current instant returned
  service,      \* the process the breaker lives in
  resp,         \* the HTTP response the handler wrote for the request
  orders,       \* OrderHandler.orders of the order-service: the stored IDs
  gFailLog,     \* history: times of the recorded failures of the last window
  gLastFail,    \* history: time of the most recently recorded failure
  gTrip,        \* history: why the breaker was last opened
  gSinceClose,  \* history: failures recorded since the breaker last closed
  gReclosed,    \* history: a HalfOpen success has been recorded
  gRun,         \* history (counter variant): failures recorded since the
                \* last recorded success
  enabled,      \* Injector.enabled
  delaySeconds, \* Injector.delaySeconds
  mu,           \* Injector.mu: the writer holding it and the readers
  ipc,          \* position of each goroutine inside an Injector method
  iop,          \* the Injector method each goroutine is in
  iarg,         \* Enable's argument delaySeconds
  seen          \* what GetStatus / Inject has read: enabled, delay

cbVars == <<variant, cb, circuitBreakerState, circuitBreakerFailures>>
callVars == <<pc, admitted, trial, invoked, recorded, fnOut, ret>>
callVarsNoPc == <<admitted, trial, invoked, recorded, fnOut, ret>>
bhVars == <<semaphore, bulkheadActive, bulkheadRejected>>
bhCallVars == <<op, ctxDone, sawFull, acquires, releases, fnCalls>>
ghostVars == <<gFailLog, gLastFail, gTrip, gSinceClose, gReclosed, gRun>>
httpVars == <<service, resp, orders>>
injVars == <<enabled, delaySeconds, mu, ipc, iop, iarg, seen>>
vars == <<cbVars, now, callVars, bhVars, bhCallVars, semCap, observed,
          httpVars, injVars, ghostVars>>

\* ------------------------------------------------------- circuit breaker
Min(a, b) == IF a < b THEN a ELSE b

\* NewCircuitBreaker (both variants; the unused variant's field stays zero).
\* failureThreshold is stored as given: no argument is validated.
NewCircuitBreaker(failureThreshold) ==
  [ state |-> StateClosed,
    failureTimestamps |-> << >>,
    failureCount |-> 0,
    failureThreshold |-> failureThreshold,
    lastFailureTime |-> ZeroTime ]

\* NewBulkhead: make(chan struct{}, maxConcurrent); the capacity of the
\* channel is maxConcurrent as given: no argument is validated.
NewBulkhead(maxConcurrent) == maxConcurrent

\* ts.After(windowStart) with windowStart = now.Add(-failureWindow).
After(ts, t) == ts > t

countFailuresInWindow(timestamps, t) ==
  Len(SelectSeq(timestamps, LAMBDA ts : After(ts, t - FailureWindow)))

cleanupOldFailures(timestamps, t) ==
  SelectSeq(timestamps, LAMBDA ts : After(ts, t - FailureWindow))

\* canAttempt with the timeout compared by >= : admits at exactly Timeout.
canAttemptAtTimeout(b, t) ==
  CASE b.state = StateClosed -> [ok |-> TRUE, state |-> b.state]
    [] b.state = StateOpen ->
         IF t - b.lastFailureTime >= Timeout
           THEN [ok |-> TRUE, state |-> StateHalfOpen]
           ELSE [ok |-> FALSE, state |-> b.state]
    [] b.state = StateHalfOpen -> [ok |-> TRUE, state |-> b.state]
    [] OTHER -> [ok |-> FALSE, state |-> b.state]

\* canAttempt: the admission decision and the state it leaves.
canAttempt(b, t) ==
  CASE b.state = StateClosed -> [ok |-> TRUE, state |-> b.state]
    [] b.state = StateOpen ->
         IF t - b.lastFailureTime > Timeout
           THEN [ok |-> TRUE, state |-> StateHalfOpen]
           ELSE [ok |-> FALSE, state |-> b.state]
    [] b.state = StateHalfOpen -> [ok |-> TRUE, state |-> b.state]
    [] OTHER -> [ok |-> FALSE, state |-> b.state]

\* recordFailure that applies the threshold to a HalfOpen failure too.
recordFailureSlidingThresholdOnly(b, t) ==
  LET valid == cleanupOldFailures(Append(b.failureTimestamps, t), t)
      next == IF b.state \in {StateClosed, StateHalfOpen}
                   /\ countFailuresInWindow(valid, t) >= b.failureThreshold
                THEN StateOpen ELSE b.state
  IN [b EXCEPT !.failureTimestamps = valid,
               !.lastFailureTime = t,
               !.state = next]

\* recordFailure that never ages a timestamp out.
recordFailureSlidingNoWindow(b, t) ==
  LET appended == Append(b.failureTimestamps, t)
      next == CASE b.state = StateClosed ->
                     IF Len(appended) >= b.failureThreshold
                       THEN StateOpen ELSE b.state
                [] b.state = StateHalfOpen -> StateOpen
                [] OTHER -> b.state
  IN [b EXCEPT !.failureTimestamps = appended,
               !.lastFailureTime = t,
               !.state = next]

\* recordFailure that counts the history as it was read before this
\* failure was appended (a lost update).
recordFailureSlidingStale(b, t) ==
  LET valid == cleanupOldFailures(Append(b.failureTimestamps, t), t)
      failuresInWindow == countFailuresInWindow(b.failureTimestamps, t)
      next == CASE b.state = StateClosed ->
                     IF failuresInWindow >= b.failureThreshold
                       THEN StateOpen ELSE b.state
                [] b.state = StateHalfOpen -> StateOpen
                [] OTHER -> b.state
  IN [b EXCEPT !.failureTimestamps = valid,
               !.lastFailureTime = t,
               !.state = next]

\* recordFailure that leaves lastFailureTime alone while the breaker is Open.
recordFailureSlidingKeepsOpenTime(b, t) ==
  LET valid == cleanupOldFailures(Append(b.failureTimestamps, t), t)
      next == CASE b.state = StateClosed ->
                     IF countFailuresInWindow(valid, t) >= b.failureThreshold
                       THEN StateOpen ELSE b.state
                [] b.state = StateHalfOpen -> StateOpen
                [] OTHER -> b.state
  IN [b EXCEPT !.failureTimestamps = valid,
               !.lastFailureTime = IF b.state = StateOpen THEN @ ELSE t,
               !.state = next]

\* recordFailure that appends without cleaning up the old failures.
recordFailureSlidingNoCleanup(b, t) ==
  LET appended == Append(b.failureTimestamps, t)
      failuresInWindow == countFailuresInWindow(appended, t)
      next == CASE b.state = StateClosed ->
                     IF failuresInWindow >= b.failureThreshold
                       THEN StateOpen ELSE b.state
                [] b.state = StateHalfOpen -> StateOpen
                [] OTHER -> b.state
  IN [b EXCEPT !.failureTimestamps = appended,
               !.lastFailureTime = t,
               !.state = next]

\* recordFailure, sliding-window variant.
recordFailureSliding(b, t) ==
  LET appended == Append(b.failureTimestamps, t)
      valid == cleanupOldFailures(appended, t)
      failuresInWindow == countFailuresInWindow(valid, t)
      next == CASE b.state = StateClosed ->
                     IF failuresInWindow >= b.failureThreshold
                       THEN StateOpen ELSE b.state
                [] b.state = StateHalfOpen -> StateOpen
                [] OTHER -> b.state
  IN [b EXCEPT !.failureTimestamps = valid,
               !.lastFailureTime = t,
               !.state = next]

\* recordFailure, counter variant.
recordFailureCounter(b, t) ==
  LET count == b.failureCount + 1
      next == CASE b.state = StateClosed ->
                     IF count >= b.failureThreshold THEN StateOpen ELSE b.state
                [] b.state = StateHalfOpen -> StateOpen
                [] OTHER -> b.state
  IN [b EXCEPT !.failureCount = count,
               !.lastFailureTime = t,
               !.state = next]

\* recordSuccess that closes the breaker but keeps the failure history.
recordSuccessSlidingKeep(b) ==
  CASE b.state = StateHalfOpen -> [b EXCEPT !.state = StateClosed]
    [] OTHER -> b

\* recordSuccess, sliding-window variant.
recordSuccessSliding(b) ==
  CASE b.state = StateHalfOpen ->
         [b EXCEPT !.failureTimestamps = << >>, !.state = StateClosed]
    [] OTHER -> b

\* recordSuccess of the counter variant that keeps failureCount while Closed.
recordSuccessCounterNoReset(b) ==
  CASE b.state = StateHalfOpen ->
         [b EXCEPT !.failureCount = 0, !.state = StateClosed]
    [] OTHER -> b

\* recordSuccess, counter variant.
recordSuccessCounter(b) ==
  CASE b.state = StateHalfOpen ->
         [b EXCEPT !.failureCount = 0, !.state = StateClosed]
    [] b.state = StateClosed -> [b EXCEPT !.failureCount = 0]
    [] OTHER -> b

recordFailure(b, t) ==
  IF variant = SlidingWindow
    THEN recordFailureSliding(b, t) ELSE recordFailureCounter(b, t)

\* recordSuccess that closes the breaker from any state.
recordSuccessFromAnyState(b) ==
  [b EXCEPT !.failureTimestamps = << >>, !.failureCount = 0,
            !.state = StateClosed]

recordSuccess(b) ==
  IF variant = SlidingWindow
    THEN recordSuccessSliding(b) ELSE recordSuccessCounter(b)

\* setState: every state change also sets the gauge to the new state.
setState(old, new) ==
  circuitBreakerState' = IF new # old THEN new ELSE circuitBreakerState

\* Execute that reports every failed call as ErrCircuitOpen.
ExecuteReturnOpen(out) ==
  IF out.err # Nil THEN [result |-> Zero, err |-> ErrCircuitOpen]
                   ELSE [result |-> out.result, err |-> Nil]

\* What Execute hands back for a callable outcome.
ExecuteReturn(out) ==
  IF out.err # Nil THEN [result |-> Zero, err |-> out.err]
                   ELSE [result |-> out.result, err |-> Nil]

\* Whether Execute records the outcome as a failure.
IsFailure(out) == out.err # Nil

\* ------------------------------------------------------- history helpers
\* Number of logged failures at or after time lo.
LoggedSince(log, lo) == Len(SelectSeq(log, LAMBDA ts : ts >= lo))

\* The history after a failure is recorded at time t in breaker state s.
LogFailure(s, t) ==
  LET log == Append(gFailLog, t)
  IN /\ gFailLog' = log
     /\ gLastFail' = t
     /\ gSinceClose' = Min(gSinceClose + 1, FailureThreshold)
     /\ gTrip' = IF s = StateClosed
                      /\ LoggedSince(log, t - FailureWindow + 1) >= FailureThreshold
                    THEN "threshold"
                    ELSE IF s = StateHalfOpen THEN "trial" ELSE gTrip
     /\ gRun' = IF variant = Counter THEN gRun + 1 ELSE gRun
     /\ UNCHANGED gReclosed

\* The history after a success is recorded in breaker state s.
LogSuccess(s) ==
  /\ gSinceClose' = IF s = StateHalfOpen THEN 0 ELSE gSinceClose
  /\ gReclosed' = (gReclosed \/ s = StateHalfOpen)
  /\ gRun' = 0
  /\ UNCHANGED <<gFailLog, gLastFail, gTrip>>

\* The history after an admission check at time t: an Open period is over
\* once more than Timeout has passed since the last recorded failure.
LogAdmission(t) ==
  /\ gTrip' = IF t - gLastFail > Timeout THEN "none" ELSE gTrip
  /\ UNCHANGED <<gFailLog, gLastFail, gSinceClose, gReclosed, gRun>>

\* --------------------------------------------------- CircuitBreaker.Execute
\* An Execute that keeps the lock until its callable has returned: no
\* admission check can run while a callable is in flight.
ExecuteAdmitHoldingLock(c) ==
  LET r == canAttempt(cb, now)
  IN /\ pc[c] = "idle"
     /\ \A d \in Callers : pc[d] # "inFn"
     /\ r.ok
     /\ cb' = [cb EXCEPT !.state = r.state]
     /\ setState(cb.state, r.state)
     /\ pc' = [pc EXCEPT ![c] = "inFn"]
     /\ admitted' = [admitted EXCEPT ![c] = TRUE]
     /\ trial' = [trial EXCEPT ![c] = (cb.state # StateClosed)]
     /\ invoked' = [invoked EXCEPT ![c] = 1]
     /\ LogAdmission(now)
     /\ UNCHANGED <<bhVars, bhCallVars>>
     /\ UNCHANGED <<semCap, observed, httpVars, injVars>>
     /\ UNCHANGED <<variant, circuitBreakerFailures, now, recorded, fnOut, ret>>

\* Execute, admission check passes: the callable is invoked.
ExecuteAdmit(c) ==
  LET r == canAttempt(cb, now)
  IN /\ pc[c] = "idle"
     /\ r.ok
     /\ cb' = [cb EXCEPT !.state = r.state]
     /\ setState(cb.state, r.state)
     /\ pc' = [pc EXCEPT ![c] = "inFn"]
     /\ admitted' = [admitted EXCEPT ![c] = TRUE]
     /\ trial' = [trial EXCEPT ![c] = (cb.state # StateClosed)]
     /\ invoked' = [invoked EXCEPT ![c] = 1]
     /\ LogAdmission(now)
     /\ UNCHANGED <<bhVars, bhCallVars>>
     /\ UNCHANGED <<semCap, observed, httpVars, injVars>>
     /\ UNCHANGED <<variant, circuitBreakerFailures, now, recorded, fnOut, ret>>

\* A rejection that restarts the Open timer.
ExecuteRejectRestartsTimer(c) ==
  LET r == canAttempt(cb, now)
  IN /\ pc[c] = "idle"
     /\ ~r.ok
     /\ circuitBreakerFailures < MaxMetric
     /\ cb' = [cb EXCEPT !.state = r.state, !.lastFailureTime = now]
     /\ setState(cb.state, r.state)
     /\ circuitBreakerFailures' = circuitBreakerFailures + 1
     /\ pc' = [pc EXCEPT ![c] = "done"]
     /\ ret' = [ret EXCEPT ![c] = [result |-> Zero, err |-> ErrCircuitOpen]]
     /\ LogAdmission(now)
     /\ UNCHANGED <<bhVars, bhCallVars>>
     /\ UNCHANGED <<semCap, observed, httpVars, injVars>>
     /\ UNCHANGED <<variant, now, admitted, trial, invoked,
                    recorded, fnOut>>

\* A rejection that is counted by the bulkhead as well.
ExecuteRejectViaBulkhead(c) ==
  LET r == canAttempt(cb, now)
  IN /\ pc[c] = "idle"
     /\ ~r.ok
     /\ circuitBreakerFailures < MaxMetric
     /\ cb' = [cb EXCEPT !.state = r.state]
     /\ setState(cb.state, r.state)
     /\ circuitBreakerFailures' = circuitBreakerFailures + 1
     /\ bulkheadRejected' = bulkheadRejected + 1
     /\ pc' = [pc EXCEPT ![c] = "done"]
     /\ ret' = [ret EXCEPT ![c] = [result |-> Zero, err |-> ErrCircuitOpen]]
     /\ LogAdmission(now)
     /\ UNCHANGED <<semaphore, bulkheadActive, bhCallVars>>
     /\ UNCHANGED <<semCap, observed, httpVars, injVars>>
     /\ UNCHANGED <<variant, now, admitted, trial, invoked,
                    recorded, fnOut>>

\* Execute, admission check fails: ErrCircuitOpen, the callable is not invoked.
ExecuteReject(c) ==
  LET r == canAttempt(cb, now)
  IN /\ pc[c] = "idle"
     /\ ~r.ok
     /\ circuitBreakerFailures < MaxMetric
     /\ cb' = [cb EXCEPT !.state = r.state]
     /\ setState(cb.state, r.state)
     /\ circuitBreakerFailures' = circuitBreakerFailures + 1
     /\ pc' = [pc EXCEPT ![c] = "done"]
     /\ ret' = [ret EXCEPT ![c] = [result |-> Zero, err |-> ErrCircuitOpen]]
     /\ LogAdmission(now)
     /\ UNCHANGED <<bhVars, bhCallVars>>
     /\ UNCHANGED <<semCap, observed, httpVars, injVars>>
     /\ UNCHANGED <<variant, now, admitted, trial, invoked, recorded, fnOut>>

\* Execute that records a failed call twice.
ExecuteFailureTwice(c, out) ==
  /\ pc[c] = "inFn"
  /\ IsFailure(out)
  /\ circuitBreakerFailures < MaxMetric
  /\ cb' = recordFailure(recordFailure(cb, now), now)
  /\ setState(cb.state, cb'.state)
  /\ circuitBreakerFailures' = circuitBreakerFailures + 1
  /\ pc' = [pc EXCEPT ![c] = "done"]
  /\ trial' = [trial EXCEPT ![c] = FALSE]
  /\ fnOut' = [fnOut EXCEPT ![c] = out]
  /\ ret' = [ret EXCEPT ![c] = ExecuteReturn(out)]
  /\ recorded' = [recorded EXCEPT ![c] = @ \o <<"failure", "failure">>]
  /\ LogFailure(cb.state, now)
  /\ UNCHANGED <<bhVars, bhCallVars>>
  /\ UNCHANGED <<semCap, observed, httpVars, injVars>>
  /\ UNCHANGED <<variant, now, admitted, invoked>>

\* The callable returns out with a non-nil error: recordFailure, return.
ExecuteFailure(c, out) ==
  /\ pc[c] = "inFn"
  /\ IsFailure(out)
  /\ circuitBreakerFailures < MaxMetric
  /\ cb' = recordFailure(cb, now)
  /\ setState(cb.state, cb'.state)
  /\ circuitBreakerFailures' = circuitBreakerFailures + 1
  /\ pc' = [pc EXCEPT ![c] = "done"]
  /\ trial' = [trial EXCEPT ![c] = FALSE]
  /\ fnOut' = [fnOut EXCEPT ![c] = out]
  /\ ret' = [ret EXCEPT ![c] = ExecuteReturn(out)]
  /\ recorded' = [recorded EXCEPT ![c] = Append(@, "failure")]
  /\ LogFailure(cb.state, now)
  /\ UNCHANGED <<bhVars, bhCallVars>>
  /\ UNCHANGED <<semCap, observed, httpVars, injVars>>
  /\ UNCHANGED <<variant, now, admitted, invoked>>

\* The callable returns out with a nil error: recordSuccess, return.
ExecuteSuccess(c, out) ==
  /\ pc[c] = "inFn"
  /\ ~IsFailure(out)
  /\ cb' = recordSuccess(cb)
  /\ setState(cb.state, cb'.state)
  /\ pc' = [pc EXCEPT ![c] = "done"]
  /\ trial' = [trial EXCEPT ![c] = FALSE]
  /\ fnOut' = [fnOut EXCEPT ![c] = out]
  /\ ret' = [ret EXCEPT ![c] = ExecuteReturn(out)]
  /\ recorded' = [recorded EXCEPT ![c] = Append(@, "success")]
  /\ LogSuccess(cb.state)
  /\ UNCHANGED <<bhVars, bhCallVars>>
  /\ UNCHANGED <<semCap, observed, httpVars, injVars>>
  /\ UNCHANGED <<variant, circuitBreakerFailures, now, admitted, invoked>>

\* An Execute that recovers from the panic and records it as a failure.
ExecutePanicRecordsFailure(c) ==
  /\ pc[c] = "inFn"
  /\ circuitBreakerFailures < MaxMetric
  /\ cb' = recordFailure(cb, now)
  /\ setState(cb.state, cb'.state)
  /\ circuitBreakerFailures' = circuitBreakerFailures + 1
  /\ pc' = [pc EXCEPT ![c] = "done"]
  /\ trial' = [trial EXCEPT ![c] = FALSE]
  /\ fnOut' = [fnOut EXCEPT ![c] = Panic]
  /\ ret' = [ret EXCEPT ![c] = Panic]
  /\ LogFailure(cb.state, now)
  /\ UNCHANGED <<bhVars, bhCallVars>>
  /\ UNCHANGED <<semCap, observed, httpVars, injVars>>
  /\ UNCHANGED <<variant, now, admitted, invoked, recorded>>

\* The callable panics: Execute unwinds without recording anything.
ExecutePanic(c) ==
  /\ pc[c] = "inFn"
  /\ pc' = [pc EXCEPT ![c] = "done"]
  /\ trial' = [trial EXCEPT ![c] = FALSE]
  /\ fnOut' = [fnOut EXCEPT ![c] = Panic]
  /\ ret' = [ret EXCEPT ![c] = Panic]
  /\ UNCHANGED <<bhVars, bhCallVars>>
  /\ UNCHANGED <<semCap, observed, httpVars, injVars>>
  /\ UNCHANGED <<cbVars, now, admitted, invoked, recorded, ghostVars>>

\* The caller is finished with the call and may start another.
Finish(c) ==
  /\ pc[c] = "done"
  /\ pc' = [pc EXCEPT ![c] = "idle"]
  /\ fnOut' = [fnOut EXCEPT ![c] = NoOutcome]
  /\ ret' = [ret EXCEPT ![c] = NoOutcome]
  /\ admitted' = [admitted EXCEPT ![c] = FALSE]
  /\ invoked' = [invoked EXCEPT ![c] = 0]
  /\ recorded' = [recorded EXCEPT ![c] = << >>]
  /\ op' = [op EXCEPT ![c] = "none"]
  /\ ctxDone' = [ctxDone EXCEPT ![c] = FALSE]
  /\ sawFull' = [sawFull EXCEPT ![c] = FALSE]
  /\ acquires' = [acquires EXCEPT ![c] = 0]
  /\ releases' = [releases EXCEPT ![c] = 0]
  /\ fnCalls' = [fnCalls EXCEPT ![c] = 0]
  /\ UNCHANGED <<semCap, observed, httpVars, injVars>>
  /\ UNCHANGED <<cbVars, now, trial, bhVars, ghostVars>>

\* A clock whose timer moves the breaker to HalfOpen when Timeout runs out.
TickHalfOpens ==
  /\ now < MaxTime
  /\ now' = now + 1
  /\ cb' = IF cb.state = StateOpen /\ now + 1 - cb.lastFailureTime > Timeout
             THEN [cb EXCEPT !.state = StateHalfOpen] ELSE cb
  /\ setState(cb.state, cb'.state)
  /\ gFailLog' = SelectSeq(gFailLog, LAMBDA ts : ts >= now + 1 - FailureWindow)
  /\ observed' = NoSample
  /\ UNCHANGED <<bhVars, bhCallVars>>
  /\ UNCHANGED injVars
  /\ UNCHANGED <<semCap, httpVars, variant, circuitBreakerFailures, callVars,
                 gLastFail,
                 gTrip, gSinceClose, gReclosed, gRun>>

\* Time passes.
Tick ==
  /\ now < MaxTime
  /\ now' = now + 1
  /\ gFailLog' = SelectSeq(gFailLog, LAMBDA ts : ts >= now + 1 - FailureWindow)
  /\ UNCHANGED <<bhVars, bhCallVars>>
  /\ observed' = NoSample
  /\ UNCHANGED injVars
  /\ UNCHANGED <<semCap, httpVars, cbVars, callVars, gLastFail, gTrip,
                 gSinceClose,
                 gReclosed, gRun>>

\* NewInjector: fault injection off, nobody inside a method.
NewInjector ==
  /\ enabled = FALSE
  /\ delaySeconds = 0
  /\ mu = [writer |-> 0, readers |-> {}]
  /\ ipc = [g \in Callers |-> "idle"]
  /\ iop = [g \in Callers |-> "none"]
  /\ iarg = [g \in Callers |-> 0]
  /\ seen = [g \in Callers |-> [enabled |-> FALSE, delay |-> 0]]

\* The state of the process svc after NewCircuitBreaker(_, failureThreshold,
\* _) and NewBulkhead(_, maxConcurrent), before any request.
InitDeployed(svc, failureThreshold, maxConcurrent) ==
  /\ service = svc
  /\ resp = [c \in Callers |-> NoResponse]
  /\ orders = {}
  /\ variant \in {Counter, SlidingWindow}
  /\ cb = NewCircuitBreaker(failureThreshold)
  /\ semCap = NewBulkhead(maxConcurrent)
  /\ observed = NoSample
  /\ circuitBreakerState = NoSample
  /\ circuitBreakerFailures = 0
  /\ now = 0
  /\ pc = [c \in Callers |-> "idle"]
  /\ admitted = [c \in Callers |-> FALSE]
  /\ trial = [c \in Callers |-> FALSE]
  /\ invoked = [c \in Callers |-> 0]
  /\ recorded = [c \in Callers |-> << >>]
  /\ fnOut = [c \in Callers |-> NoOutcome]
  /\ ret = [c \in Callers |-> NoOutcome]
  /\ semaphore = 0
  /\ bulkheadActive = 0
  /\ bulkheadRejected = 0
  /\ op = [c \in Callers |-> "none"]
  /\ ctxDone = [c \in Callers |-> FALSE]
  /\ sawFull = [c \in Callers |-> FALSE]
  /\ acquires = [c \in Callers |-> 0]
  /\ releases = [c \in Callers |-> 0]
  /\ fnCalls = [c \in Callers |-> 0]
  /\ gFailLog = << >>
  /\ gLastFail = ZeroTime
  /\ gTrip = "none"
  /\ gSinceClose = 0
  /\ gReclosed = FALSE
  /\ gRun = 0
  /\ NewInjector

\* The order-service with the given constructor arguments.
InitConfigured(failureThreshold, maxConcurrent) ==
  InitDeployed(OrderService, failureThreshold, maxConcurrent)

Init == InitConfigured(FailureThreshold, MaxConcurrent)

Next ==
  \/ \E c \in Callers : ExecuteAdmit(c)
  \/ \E c \in Callers : ExecuteReject(c)
  \/ \E c \in Callers : \E out \in FnOutcomes : ExecuteFailure(c, out)
  \/ \E c \in Callers : \E out \in FnOutcomes : ExecuteSuccess(c, out)
  \/ \E c \in Callers : ExecutePanic(c)
  \/ \E c \in Callers : Finish(c)
  \/ Tick

Spec == Init /\ [][Next]_vars

\* ------------------------------------------------- CircuitBreaker.GetState
\* A GetState that evaluates the timeout as the admission check does.
GetStateLazy ==
  LET r == canAttempt(cb, now)
  IN /\ observed' = r.state
     /\ cb' = [cb EXCEPT !.state = r.state]
     /\ setState(cb.state, r.state)
     /\ UNCHANGED injVars
     /\ UNCHANGED <<variant, circuitBreakerFailures, now, callVars, bhVars,
                    bhCallVars, semCap, httpVars, ghostVars>>

\* GetState, called by an observer at any time: returns cb.state under the
\* read lock.
GetState ==
  /\ observed' = cb.state
  /\ UNCHANGED injVars
  /\ UNCHANGED <<cbVars, now, callVars, bhVars, bhCallVars, semCap, httpVars,
                 ghostVars>>

NextGetState ==
  \/ \E c \in Callers : ExecuteAdmit(c)
  \/ \E c \in Callers : ExecuteReject(c)
  \/ \E c \in Callers : \E out \in FnOutcomes : ExecuteFailure(c, out)
  \/ \E c \in Callers : \E out \in FnOutcomes : ExecuteSuccess(c, out)
  \/ \E c \in Callers : ExecutePanic(c)
  \/ \E c \in Callers : Finish(c)
  \/ Tick
  \/ GetState

\* GetState is the same code in both variants; the observer is explored
\* against the sliding-window breaker.
InitGetState == Init /\ variant = SlidingWindow

SpecGetState == InitGetState /\ [][NextGetState]_vars

\* -------------------------------------------------------------- Bulkhead
\* A channel of capacity maxConcurrent + 1.
CanSendOneMore(sem) == sem <= semCap

\* `b.semaphore <- struct{}{}` is ready: the buffered channel of capacity
\* maxConcurrent is not full.
CanSend(sem) == sem < semCap

\* len(b.semaphore)
GetActiveCount == semaphore

\* What the callable handed to the bulkhead may return: an error or nil.
BhFnOutcomes == { [result |-> Zero, err |-> e] : e \in {Nil, "e1"} }

\* Execute / TryExecute, select takes the send case: a slot is acquired.
\* With a done context and a free slot both cases of Execute's select are
\* ready and either may be taken.
BhAcquire(c, o, d) ==
  /\ pc[c] = "idle"
  /\ o = "TryExecute" => ~d
  /\ CanSend(semaphore)
  /\ semaphore' = semaphore + 1
  /\ pc' = [pc EXCEPT ![c] = "acquired"]
  /\ op' = [op EXCEPT ![c] = o]
  /\ ctxDone' = [ctxDone EXCEPT ![c] = d]
  /\ sawFull' = [sawFull EXCEPT ![c] = FALSE]
  /\ acquires' = [acquires EXCEPT ![c] = @ + 1]
  /\ UNCHANGED <<semCap, observed, httpVars, injVars>>
  /\ UNCHANGED <<cbVars, now, admitted, trial, invoked, recorded, fnOut, ret,
                 bulkheadActive, bulkheadRejected, releases, fnCalls,
                 ghostVars>>

\* Execute, select takes `<-ctx.Done()`: return ctx.Err().
BhCancelled(c) ==
  /\ pc[c] = "idle"
  /\ pc' = [pc EXCEPT ![c] = "done"]
  /\ op' = [op EXCEPT ![c] = "Execute"]
  /\ ctxDone' = [ctxDone EXCEPT ![c] = TRUE]
  /\ sawFull' = [sawFull EXCEPT ![c] = ~CanSend(semaphore)]
  /\ ret' = [ret EXCEPT ![c] = [result |-> Zero, err |-> CtxErr]]
  /\ UNCHANGED <<semCap, observed, httpVars, injVars>>
  /\ UNCHANGED <<cbVars, now, admitted, trial, invoked, recorded, fnOut,
                 bhVars, acquires, releases, fnCalls, ghostVars>>

\* A bulkhead whose send blocks until a slot is free (no default case).
BhFullWaits(c, o, d) == BhAcquire(c, o, d)

\* Execute / TryExecute, no case is ready: default, ErrBulkheadFull.
BhFull(c, o, d) ==
  /\ pc[c] = "idle"
  /\ o = "TryExecute" => ~d
  /\ ~CanSend(semaphore)
  /\ ~(o = "Execute" /\ d)
  /\ bulkheadRejected < MaxRejected
  /\ bulkheadRejected' = bulkheadRejected + 1
  /\ pc' = [pc EXCEPT ![c] = "done"]
  /\ op' = [op EXCEPT ![c] = o]
  /\ ctxDone' = [ctxDone EXCEPT ![c] = d]
  /\ sawFull' = [sawFull EXCEPT ![c] = TRUE]
  /\ ret' = [ret EXCEPT ![c] = [result |-> Zero, err |-> ErrBulkheadFull]]
  /\ UNCHANGED <<semCap, observed, httpVars, injVars>>
  /\ UNCHANGED <<cbVars, now, admitted, trial, invoked, recorded, fnOut,
                 semaphore, bulkheadActive, acquires, releases, fnCalls,
                 ghostVars>>

\* bulkheadActive.Inc(), then the callable is invoked.
BhStart(c) ==
  /\ pc[c] = "acquired"
  /\ bulkheadActive' = bulkheadActive + 1
  /\ pc' = [pc EXCEPT ![c] = "running"]
  /\ fnCalls' = [fnCalls EXCEPT ![c] = @ + 1]
  /\ UNCHANGED <<semCap, observed, httpVars, injVars>>
  /\ UNCHANGED <<cbVars, now, callVarsNoPc, semaphore, bulkheadRejected,
                 op, ctxDone, sawFull, acquires, releases, ghostVars>>

\* A panicking callable whose slot is not given back (release not deferred).
BhPanicNoRelease(c) ==
  /\ pc[c] = "running"
  /\ pc' = [pc EXCEPT ![c] = "released"]
  /\ fnOut' = [fnOut EXCEPT ![c] = Panic]
  /\ UNCHANGED <<semCap, observed, httpVars, injVars>>
  /\ UNCHANGED <<cbVars, now, admitted, trial, invoked, recorded, ret,
                 bhVars, bhCallVars, ghostVars>>

\* The callable returns out; the deferred function takes the token back.
BhReturn(c, out) ==
  /\ pc[c] = "running"
  /\ semaphore' = semaphore - 1
  /\ releases' = [releases EXCEPT ![c] = @ + 1]
  /\ pc' = [pc EXCEPT ![c] = "released"]
  /\ fnOut' = [fnOut EXCEPT ![c] = out]
  /\ UNCHANGED <<semCap, observed, httpVars, injVars>>
  /\ UNCHANGED <<cbVars, now, admitted, trial, invoked, recorded, ret,
                 bulkheadActive, bulkheadRejected, op, ctxDone, sawFull,
                 acquires, fnCalls, ghostVars>>

\* The callable panics; the deferred function takes the token back.
BhPanic(c) ==
  /\ pc[c] = "running"
  /\ semaphore' = semaphore - 1
  /\ releases' = [releases EXCEPT ![c] = @ + 1]
  /\ pc' = [pc EXCEPT ![c] = "released"]
  /\ fnOut' = [fnOut EXCEPT ![c] = Panic]
  /\ UNCHANGED <<semCap, observed, httpVars, injVars>>
  /\ UNCHANGED <<cbVars, now, admitted, trial, invoked, recorded, ret,
                 bulkheadActive, bulkheadRejected, op, ctxDone, sawFull,
                 acquires, fnCalls, ghostVars>>

\* The deferred function's bulkheadActive.Dec(); the method returns the
\* callable's error, or the panic goes on to the caller.
BhEnd(c) ==
  /\ pc[c] = "released"
  /\ bulkheadActive' = bulkheadActive - 1
  /\ pc' = [pc EXCEPT ![c] = "done"]
  /\ ret' = [ret EXCEPT ![c] = fnOut[c]]
  /\ UNCHANGED <<semCap, observed, httpVars, injVars>>
  /\ UNCHANGED <<cbVars, now, admitted, trial, invoked, recorded, fnOut,
                 semaphore, bulkheadRejected, bhCallVars, ghostVars>>

BhOps == {"Execute", "TryExecute"}

NextBulkhead ==
  \/ \E c \in Callers : \E o \in BhOps : \E d \in BOOLEAN : BhAcquire(c, o, d)
  \/ \E c \in Callers : BhCancelled(c)
  \/ \E c \in Callers : \E o \in BhOps : \E d \in BOOLEAN : BhFull(c, o, d)
  \/ \E c \in Callers : BhStart(c)
  \/ \E c \in Callers : \E out \in BhFnOutcomes : BhReturn(c, out)
  \/ \E c \in Callers : BhPanic(c)
  \/ \E c \in Callers : BhEnd(c)
  \/ \E c \in Callers : Finish(c)

InitBulkhead == Init /\ variant = SlidingWindow

SpecBulkhead == InitBulkhead /\ [][NextBulkhead]_vars

\* ------------------------------------------- PaymentClient.ProcessPayment
\* circuitBreaker.Execute(func() { bulkhead.TryExecute(makePaymentCall) }).
\* The admission check is ExecuteAdmit / ExecuteReject; the callable then
\* runs TryExecute.

\* What makePaymentCall may return.
PaymentOutcomes ==
  { [result |-> "r1", err |-> Nil], [result |-> Zero, err |-> "e1"] }

\* TryExecute inside the callable, a slot is free: acquire it.
PayTryAcquire(c) ==
  /\ pc[c] = "inFn"
  /\ CanSend(semaphore)
  /\ semaphore' = semaphore + 1
  /\ pc' = [pc EXCEPT ![c] = "acquired"]
  /\ op' = [op EXCEPT ![c] = "TryExecute"]
  /\ sawFull' = [sawFull EXCEPT ![c] = FALSE]
  /\ acquires' = [acquires EXCEPT ![c] = @ + 1]
  /\ UNCHANGED <<semCap, observed, httpVars, injVars>>
  /\ UNCHANGED <<cbVars, now, callVarsNoPc, bulkheadActive, bulkheadRejected,
                 ctxDone, releases, fnCalls, ghostVars>>

\* TryExecute inside the callable, no slot: the callable returns
\* (nil, ErrBulkheadFull) to the breaker.
PayTryFull(c) ==
  /\ pc[c] = "inFn"
  /\ ~CanSend(semaphore)
  /\ bulkheadRejected < MaxRejected
  /\ bulkheadRejected' = bulkheadRejected + 1
  /\ pc' = [pc EXCEPT ![c] = "fnReturned"]
  /\ op' = [op EXCEPT ![c] = "TryExecute"]
  /\ sawFull' = [sawFull EXCEPT ![c] = TRUE]
  /\ fnOut' = [fnOut EXCEPT ![c] = [result |-> Zero, err |-> ErrBulkheadFull]]
  /\ UNCHANGED <<semCap, observed, httpVars, injVars>>
  /\ UNCHANGED <<cbVars, now, admitted, trial, invoked, recorded, ret,
                 semaphore, bulkheadActive, ctxDone, acquires, releases,
                 fnCalls, ghostVars>>

\* The deferred bulkheadActive.Dec(); TryExecute and the callable return
\* makePaymentCall's outcome to the breaker, or the panic unwinds Execute.
PayEnd(c) ==
  /\ pc[c] = "released"
  /\ bulkheadActive' = bulkheadActive - 1
  /\ IF fnOut[c] = Panic
       THEN /\ pc' = [pc EXCEPT ![c] = "done"]
            /\ ret' = [ret EXCEPT ![c] = Panic]
            /\ trial' = [trial EXCEPT ![c] = FALSE]
       ELSE /\ pc' = [pc EXCEPT ![c] = "fnReturned"]
            /\ UNCHANGED <<ret, trial>>
  /\ UNCHANGED <<semCap, observed, httpVars, injVars>>
  /\ UNCHANGED <<cbVars, now, admitted, invoked, recorded, fnOut,
                 semaphore, bulkheadRejected, bhCallVars, ghostVars>>

\* The callable returned a non-nil error to Execute: recordFailure, return.
PayRecordFailure(c) ==
  /\ pc[c] = "fnReturned"
  /\ IsFailure(fnOut[c])
  /\ circuitBreakerFailures < MaxMetric
  /\ cb' = recordFailure(cb, now)
  /\ setState(cb.state, cb'.state)
  /\ circuitBreakerFailures' = circuitBreakerFailures + 1
  /\ pc' = [pc EXCEPT ![c] = "done"]
  /\ trial' = [trial EXCEPT ![c] = FALSE]
  /\ ret' = [ret EXCEPT ![c] = ExecuteReturn(fnOut[c])]
  /\ recorded' = [recorded EXCEPT ![c] = Append(@, "failure")]
  /\ LogFailure(cb.state, now)
  /\ UNCHANGED <<semCap, observed, httpVars, injVars>>
  /\ UNCHANGED <<variant, now, admitted, invoked, fnOut, bhVars, bhCallVars>>

\* The callable returned a nil error to Execute: recordSuccess, return.
PayRecordSuccess(c) ==
  /\ pc[c] = "fnReturned"
  /\ ~IsFailure(fnOut[c])
  /\ cb' = recordSuccess(cb)
  /\ setState(cb.state, cb'.state)
  /\ pc' = [pc EXCEPT ![c] = "done"]
  /\ trial' = [trial EXCEPT ![c] = FALSE]
  /\ ret' = [ret EXCEPT ![c] = ExecuteReturn(fnOut[c])]
  /\ recorded' = [recorded EXCEPT ![c] = Append(@, "success")]
  /\ LogSuccess(cb.state)
  /\ UNCHANGED <<semCap, observed, httpVars, injVars>>
  /\ UNCHANGED <<variant, circuitBreakerFailures, now, admitted, invoked,
                 fnOut, bhVars, bhCallVars>>

NextPayment ==
  \/ \E c \in Callers : ExecuteAdmit(c)
  \/ \E c \in Callers : ExecuteReject(c)
  \/ \E c \in Callers : PayTryAcquire(c)
  \/ \E c \in Callers : PayTryFull(c)
  \/ \E c \in Callers : BhStart(c)
  \/ \E c \in Callers : \E out \in PaymentOutcomes : BhReturn(c, out)
  \/ \E c \in Callers : BhPanic(c)
  \/ \E c \in Callers : PayEnd(c)
  \/ \E c \in Callers : PayRecordFailure(c)
  \/ \E c \in Callers : PayRecordSuccess(c)
  \/ \E c \in Callers : Finish(c)

\* The composed path is explored with all requests inside one clock instant;
\* what the breaker does as time passes is explored by Spec.
SpecPayment == Init /\ [][NextPayment]_vars

\* -------------------------------------------------------- construction
\* Arguments a caller may hand to the constructors.  A negative capacity
\* makes make(chan struct{}, maxConcurrent) panic, so no bulkhead exists
\* afterwards; every other argument yields an instance.
CtorThresholds == (0 - 1)..FailureThreshold
CtorCapacities == 0..MaxConcurrent

InitConstruct ==
  \E failureThreshold \in CtorThresholds :
    \E maxConcurrent \in CtorCapacities :
      InitConfigured(failureThreshold, maxConcurrent)

\* The instances, whatever they were constructed with, used as
\* ProcessPayment uses them.
SpecConstruct == InitConstruct /\ [][NextPayment]_vars

\* --------------------------------------------------------- HTTP handlers
\* order-service: POST /api/orders is OrderHandler.CreateOrder around
\* PaymentClient.ProcessPayment, GET /api/orders/:id is OrderHandler.GetOrder.
\* api-gateway: POST /api/orders is OrderHandler.CreateOrder around
\* OrderClient.CreateOrder (the breaker around makeCreateOrderCall), GET is
\* OrderHandler.GetOrder around OrderClient.GetOrder (no breaker).

\* The order IDs fmt.Sprintf("order-%s", uuid...) may produce.  The ID is
\* generated before the payment and read only when the order is stored, so
\* the model draws it when the handler answers.
OrderIDs == {"order-a", "order-b"}

\* What makeGetOrderCall may return to the api-gateway.
GetOrderOutcomes ==
  { [result |-> "r1", err |-> Nil],
    [result |-> Zero, err |-> "order not found"],
    [result |-> Zero, err |-> "e1"] }

\* order-service CreateOrder that answers every payment error with 500.
OrderServiceStatusAll500(err) ==
  IF err = Nil THEN StatusOK ELSE StatusInternalServerError

\* order-service CreateOrder: the status for what ProcessPayment returned.
OrderServiceStatus(err) ==
  IF err # Nil
    THEN IF err = ErrCircuitOpen THEN StatusServiceUnavailable
         ELSE IF err = ErrBulkheadFull THEN StatusServiceUnavailable
         ELSE StatusInternalServerError
    ELSE StatusOK

\* api-gateway CreateOrder: the status for what OrderClient.CreateOrder
\* returned.
GatewayStatus(err) ==
  IF err # Nil
    THEN IF err = ErrCircuitOpen THEN StatusServiceUnavailable
         ELSE StatusInternalServerError
    ELSE StatusOK

\* api-gateway GetOrder: the status for what OrderClient.GetOrder returned.
GatewayGetStatus(err) ==
  IF err # Nil
    THEN IF err = "order not found" THEN StatusNotFound
         ELSE StatusInternalServerError
    ELSE StatusOK

\* Both CreateOrder handlers: the body does not bind, 400, nothing else runs.
CreateOrderBadRequest(c) ==
  /\ pc[c] = "idle"
  /\ pc' = [pc EXCEPT ![c] = "responded"]
  /\ resp' = [resp EXCEPT ![c] = [handler |-> "CreateOrder",
                                  status |-> StatusBadRequest,
                                  id |-> "none"]]
  /\ UNCHANGED injVars
  /\ UNCHANGED <<cbVars, now, callVarsNoPc, bhVars, bhCallVars, semCap,
                 observed, service, orders, ghostVars>>

\* order-service CreateOrder that stores the order whatever the payment did.
CreateOrderStoresAnyway(c, id) ==
  /\ service = OrderService
  /\ pc[c] = "done"
  /\ ret[c] # Panic
  /\ pc' = [pc EXCEPT ![c] = "responded"]
  /\ resp' = [resp EXCEPT ![c] = [handler |-> "CreateOrder",
                                  status |-> OrderServiceStatus(ret[c].err),
                                  id |-> IF ret[c].err = Nil THEN id
                                                             ELSE "none"]]
  /\ orders' = orders \cup {id}
  /\ UNCHANGED injVars
  /\ UNCHANGED <<cbVars, now, callVarsNoPc, bhVars, bhCallVars, semCap,
                 observed, service, ghostVars>>

\* order-service CreateOrder after ProcessPayment returned: the error
\* response, or the order is stored under its ID and answered with 200.
CreateOrderRespond(c, id) ==
  /\ service = OrderService
  /\ pc[c] = "done"
  /\ ret[c] # Panic
  /\ pc' = [pc EXCEPT ![c] = "responded"]
  /\ resp' = [resp EXCEPT ![c] = [handler |-> "CreateOrder",
                                  status |-> OrderServiceStatus(ret[c].err),
                                  id |-> IF ret[c].err = Nil THEN id
                                                             ELSE "none"]]
  /\ orders' = IF ret[c].err = Nil THEN orders \cup {id} ELSE orders
  /\ UNCHANGED injVars
  /\ UNCHANGED <<cbVars, now, callVarsNoPc, bhVars, bhCallVars, semCap,
                 observed, service, ghostVars>>

\* order-service GetOrder: 200 with the stored order, 404 without.
GetOrder(c, id) ==
  /\ service = OrderService
  /\ pc[c] = "idle"
  /\ pc' = [pc EXCEPT ![c] = "responded"]
  /\ resp' = [resp EXCEPT ![c] = [handler |-> "GetOrder",
                                  status |-> IF id \in orders
                                               THEN StatusOK
                                               ELSE StatusNotFound,
                                  id |-> id]]
  /\ UNCHANGED injVars
  /\ UNCHANGED <<cbVars, now, callVarsNoPc, bhVars, bhCallVars, semCap,
                 observed, service, orders, ghostVars>>

\* api-gateway CreateOrder after OrderClient.CreateOrder returned.
GatewayCreateOrderRespond(c) ==
  /\ service = ApiGateway
  /\ pc[c] = "done"
  /\ ret[c] # Panic
  /\ pc' = [pc EXCEPT ![c] = "responded"]
  /\ resp' = [resp EXCEPT ![c] = [handler |-> "CreateOrder",
                                  status |-> GatewayStatus(ret[c].err),
                                  id |-> "none"]]
  /\ UNCHANGED injVars
  /\ UNCHANGED <<cbVars, now, callVarsNoPc, bhVars, bhCallVars, semCap,
                 observed, service, orders, ghostVars>>

\* An api-gateway GetOrder that asks the breaker before calling.
GatewayGetOrderGuarded(c, out) ==
  /\ service = ApiGateway
  /\ pc[c] = "idle"
  /\ canAttempt(cb, now).ok
  /\ pc' = [pc EXCEPT ![c] = "responded"]
  /\ fnOut' = [fnOut EXCEPT ![c] = out]
  /\ resp' = [resp EXCEPT ![c] = [handler |-> "GetOrder",
                                  status |-> GatewayGetStatus(out.err),
                                  id |-> "none"]]
  /\ UNCHANGED injVars
  /\ UNCHANGED <<cbVars, now, admitted, trial, invoked, recorded, ret, bhVars,
                 bhCallVars, semCap, observed, service, orders, ghostVars>>

\* api-gateway GetOrder: OrderClient.GetOrder calls makeGetOrderCall
\* directly, the handler maps what it returned.
GatewayGetOrder(c, out) ==
  /\ service = ApiGateway
  /\ pc[c] = "idle"
  /\ pc' = [pc EXCEPT ![c] = "responded"]
  /\ fnOut' = [fnOut EXCEPT ![c] = out]
  /\ resp' = [resp EXCEPT ![c] = [handler |-> "GetOrder",
                                  status |-> GatewayGetStatus(out.err),
                                  id |-> "none"]]
  /\ UNCHANGED injVars
  /\ UNCHANGED <<cbVars, now, admitted, trial, invoked, recorded, ret, bhVars,
                 bhCallVars, semCap, observed, service, orders, ghostVars>>

\* The panic of the callable reaches gin.Recovery(), which answers 500.
HandlerPanic(c) ==
  /\ pc[c] = "done"
  /\ ret[c] = Panic
  /\ pc' = [pc EXCEPT ![c] = "responded"]
  /\ resp' = [resp EXCEPT ![c] = [handler |-> "Recovery",
                                  status |-> StatusInternalServerError,
                                  id |-> "none"]]
  /\ UNCHANGED injVars
  /\ UNCHANGED <<cbVars, now, callVarsNoPc, bhVars, bhCallVars, semCap,
                 observed, service, orders, ghostVars>>

\* The request is over; the goroutine may serve another.
HandlerReturn(c) ==
  /\ pc[c] = "responded"
  /\ pc' = [pc EXCEPT ![c] = "idle"]
  /\ resp' = [resp EXCEPT ![c] = NoResponse]
  /\ fnOut' = [fnOut EXCEPT ![c] = NoOutcome]
  /\ ret' = [ret EXCEPT ![c] = NoOutcome]
  /\ admitted' = [admitted EXCEPT ![c] = FALSE]
  /\ invoked' = [invoked EXCEPT ![c] = 0]
  /\ recorded' = [recorded EXCEPT ![c] = << >>]
  /\ op' = [op EXCEPT ![c] = "none"]
  /\ ctxDone' = [ctxDone EXCEPT ![c] = FALSE]
  /\ sawFull' = [sawFull EXCEPT ![c] = FALSE]
  /\ acquires' = [acquires EXCEPT ![c] = 0]
  /\ releases' = [releases EXCEPT ![c] = 0]
  /\ fnCalls' = [fnCalls EXCEPT ![c] = 0]
  /\ UNCHANGED injVars
  /\ UNCHANGED <<cbVars, now, trial, bhVars, semCap, observed, service,
                 orders, ghostVars>>

NextHttp ==
  \/ \E c \in Callers : CreateOrderBadRequest(c)
  \/ \E c \in Callers : ExecuteAdmit(c)
  \/ \E c \in Callers : ExecuteReject(c)
  \/ service = OrderService /\ \E c \in Callers : PayTryAcquire(c)
  \/ service = OrderService /\ \E c \in Callers : PayTryFull(c)
  \/ service = OrderService /\ \E c \in Callers : BhStart(c)
  \/ service = OrderService
       /\ \E c \in Callers : \E out \in PaymentOutcomes : BhReturn(c, out)
  \/ service = OrderService /\ \E c \in Callers : BhPanic(c)
  \/ service = OrderService /\ \E c \in Callers : PayEnd(c)
  \/ service = OrderService /\ \E c \in Callers : PayRecordFailure(c)
  \/ service = OrderService /\ \E c \in Callers : PayRecordSuccess(c)
  \/ service = ApiGateway
       /\ \E c \in Callers : \E out \in FnOutcomes : ExecuteFailure(c, out)
  \/ service = ApiGateway
       /\ \E c \in Callers : \E out \in FnOutcomes : ExecuteSuccess(c, out)
  \/ service = ApiGateway /\ \E c \in Callers : ExecutePanic(c)
  \/ \E c \in Callers : \E id \in OrderIDs : CreateOrderRespond(c, id)
  \/ \E c \in Callers : \E id \in OrderIDs : GetOrder(c, id)
  \/ \E c \in Callers : GatewayCreateOrderRespond(c)
  \/ \E c \in Callers : \E out \in GetOrderOutcomes : GatewayGetOrder(c, out)
  \/ \E c \in Callers : HandlerPanic(c)
  \/ \E c \in Callers : HandlerReturn(c)

\* Both processes run the sliding-window breaker ("5 failures in 10
\* seconds"); the requests are explored inside one clock instant.
InitHttp ==
  /\ \E svc \in {OrderService, ApiGateway} :
       InitDeployed(svc, FailureThreshold, MaxConcurrent)
  /\ variant = SlidingWindow

SpecHttp == InitHttp /\ [][NextHttp]_vars

\* ----------------------------------------------- payment-service Injector
\* Enable's argument.
Delays == 0..MaxDelay

\* Everything outside the Injector.
nonInjVars == <<cbVars, now, callVars, bhVars, bhCallVars, semCap, observed,
                httpVars, ghostVars>>

\* Enable: i.mu.Lock() succeeds once no writer and no reader holds mu.
EnableLock(g, d) ==
  /\ ipc[g] = "idle"
  /\ mu.writer = 0
  /\ mu.readers = {}
  /\ mu' = [mu EXCEPT !.writer = g]
  /\ iop' = [iop EXCEPT ![g] = "Enable"]
  /\ iarg' = [iarg EXCEPT ![g] = d]
  /\ ipc' = [ipc EXCEPT ![g] = "setEnabled"]
  /\ UNCHANGED <<enabled, delaySeconds, seen, nonInjVars>>

\* Disable: i.mu.Lock().
DisableLock(g) ==
  /\ ipc[g] = "idle"
  /\ mu.writer = 0
  /\ mu.readers = {}
  /\ mu' = [mu EXCEPT !.writer = g]
  /\ iop' = [iop EXCEPT ![g] = "Disable"]
  /\ ipc' = [ipc EXCEPT ![g] = "setEnabled"]
  /\ UNCHANGED <<enabled, delaySeconds, iarg, seen, nonInjVars>>

\* i.enabled = true (Enable) or false (Disable).
SetEnabled(g) ==
  /\ ipc[g] = "setEnabled"
  /\ enabled' = (iop[g] = "Enable")
  /\ ipc' = [ipc EXCEPT ![g] = "setDelay"]
  /\ UNCHANGED <<delaySeconds, mu, iop, iarg, seen, nonInjVars>>

\* i.delaySeconds = delaySeconds (Enable) or 0 (Disable).
SetDelaySeconds(g) ==
  /\ ipc[g] = "setDelay"
  /\ delaySeconds' = IF iop[g] = "Enable" THEN iarg[g] ELSE 0
  /\ ipc' = [ipc EXCEPT ![g] = "unlock"]
  /\ UNCHANGED <<enabled, mu, iop, iarg, seen, nonInjVars>>

\* The deferred i.mu.Unlock(); Enable / Disable returns.
Unlock(g) ==
  /\ ipc[g] = "unlock"
  /\ mu' = [mu EXCEPT !.writer = 0]
  /\ ipc' = [ipc EXCEPT ![g] = "returned"]
  /\ UNCHANGED <<enabled, delaySeconds, iop, iarg, seen, nonInjVars>>

\* A GetStatus that reads the two fields without taking the lock.
GetStatusNoLock(g) ==
  /\ ipc[g] = "idle"
  /\ iop' = [iop EXCEPT ![g] = "GetStatus"]
  /\ ipc' = [ipc EXCEPT ![g] = "readEnabled"]
  /\ UNCHANGED <<enabled, delaySeconds, mu, iarg, seen, nonInjVars>>

\* GetStatus: i.mu.RLock() succeeds once no writer holds mu.
GetStatusRLock(g) ==
  /\ ipc[g] = "idle"
  /\ mu.writer = 0
  /\ mu' = [mu EXCEPT !.readers = @ \cup {g}]
  /\ iop' = [iop EXCEPT ![g] = "GetStatus"]
  /\ ipc' = [ipc EXCEPT ![g] = "readEnabled"]
  /\ UNCHANGED <<enabled, delaySeconds, iarg, seen, nonInjVars>>

\* Inject: i.mu.RLock().
InjectRLock(g) ==
  /\ ipc[g] = "idle"
  /\ mu.writer = 0
  /\ mu' = [mu EXCEPT !.readers = @ \cup {g}]
  /\ iop' = [iop EXCEPT ![g] = "Inject"]
  /\ ipc' = [ipc EXCEPT ![g] = "readEnabled"]
  /\ UNCHANGED <<enabled, delaySeconds, iarg, seen, nonInjVars>>

\* The read of i.enabled.
ReadEnabled(g) ==
  /\ ipc[g] = "readEnabled"
  /\ seen' = [seen EXCEPT ![g].enabled = enabled]
  /\ ipc' = [ipc EXCEPT ![g] = "readDelay"]
  /\ UNCHANGED <<enabled, delaySeconds, mu, iop, iarg, nonInjVars>>

\* The read of i.delaySeconds.
ReadDelaySeconds(g) ==
  /\ ipc[g] = "readDelay"
  /\ seen' = [seen EXCEPT ![g].delay = delaySeconds]
  /\ ipc' = [ipc EXCEPT ![g] = "runlock"]
  /\ UNCHANGED <<enabled, delaySeconds, mu, iop, iarg, nonInjVars>>

\* i.mu.RUnlock(): GetStatus returns the pair; Inject goes to sleep when
\* enabled && delay > 0 and returns otherwise.
RUnlock(g) ==
  /\ ipc[g] = "runlock"
  /\ mu' = [mu EXCEPT !.readers = @ \ {g}]
  /\ ipc' = [ipc EXCEPT ![g] =
               IF iop[g] = "Inject" /\ seen[g].enabled /\ seen[g].delay > 0
                 THEN "sleeping" ELSE "returned"]
  /\ UNCHANGED <<enabled, delaySeconds, iop, iarg, seen, nonInjVars>>

\* time.Sleep is over; Inject returns.
Wake(g) ==
  /\ ipc[g] = "sleeping"
  /\ ipc' = [ipc EXCEPT ![g] = "returned"]
  /\ UNCHANGED <<enabled, delaySeconds, mu, iop, iarg, seen, nonInjVars>>

\* The caller goes on and may call the Injector again.
Return(g) ==
  /\ ipc[g] = "returned"
  /\ ipc' = [ipc EXCEPT ![g] = "idle"]
  /\ iop' = [iop EXCEPT ![g] = "none"]
  /\ iarg' = [iarg EXCEPT ![g] = 0]
  /\ seen' = [seen EXCEPT ![g] = [enabled |-> FALSE, delay |-> 0]]
  /\ UNCHANGED <<enabled, delaySeconds, mu, nonInjVars>>

NextInjector ==
  \/ \E g \in Callers : \E d \in Delays : EnableLock(g, d)
  \/ \E g \in Callers : DisableLock(g)
  \/ \E g \in Callers : SetEnabled(g)
  \/ \E g \in Callers : SetDelaySeconds(g)
  \/ \E g \in Callers : Unlock(g)
  \/ \E g \in Callers : GetStatusRLock(g)
  \/ \E g \in Callers : InjectRLock(g)
  \/ \E g \in Callers : ReadEnabled(g)
  \/ \E g \in Callers : ReadDelaySeconds(g)
  \/ \E g \in Callers : RUnlock(g)
  \/ \E g \in Callers : Wake(g)
  \/ \E g \in Callers : Return(g)

InitInjector == Init /\ variant = SlidingWindow

SpecInjector == InitInjector /\ [][NextInjector]_vars


\* ------------------------------------------------------------ properties
\* Steps of Execute, as seen from outside.
AdmissionStep(c) == pc[c] = "idle" /\ pc'[c] # "idle"
RejectedStep(c) ==
  /\ pc'[c] = "done"
  /\ ret'[c] = [result |-> Zero, err |-> ErrCircuitOpen]
  /\ invoked'[c] = 0
  /\ fnOut'[c] = NoOutcome
RecordStep(c, kind) ==
  /\ pc[c] = "inFn"
  /\ pc'[c] = "done"
  /\ recorded'[c] # << >>
  /\ recorded'[c][1] = kind
Rejected(c) ==
  /\ pc[c] = "done"
  /\ ~admitted[c]
  /\ ret[c] = [result |-> Zero, err |-> ErrCircuitOpen]

\* The Open period that a trip of the given kind started is still running:
\* no more than Timeout has passed since the last recorded failure.
InOpenPeriod(kind) == gTrip = kind /\ now - gLastFail <= Timeout

\* C1: sliding-window breaker: once FailureThreshold failures have been
\* recorded inside one window while Closed, the breaker is Open, and every
\* admission check is rejected with ErrCircuitOpen, callable not invoked,
\* until more than Timeout has passed since the last recorded failure.
C1_OpenAfterThreshold ==
  /\ [](variant = SlidingWindow /\ InOpenPeriod("threshold")
          => cb.state = StateOpen)
  /\ [][\A c \in Callers :
          (variant = SlidingWindow /\ InOpenPeriod("threshold")
             /\ AdmissionStep(c)) => RejectedStep(c)]_vars

C1_Witness ==
  /\ variant = SlidingWindow
  /\ InOpenPeriod("threshold")
  /\ cb.state = StateOpen
  /\ \E c \in Callers : Rejected(c)

\* C2: while a trial call admitted by an Open->HalfOpen or HalfOpen
\* admission check has not recorded its outcome, no other call is admitted
\* as a trial.
C2_SingleTrial ==
  \A c, d \in Callers :
    (pc[c] = "inFn" /\ trial[c] /\ pc[d] = "inFn" /\ trial[d]) => c = d

\* C3: a success recorded while HalfOpen closes the breaker and empties the
\* failure history (failureCount = 0), and the breaker leaves Closed for
\* Open only after FailureThreshold failures recorded since it last closed.
C3_HalfOpenSuccessCloses ==
  [][ /\ \A c \in Callers :
           (RecordStep(c, "success") /\ cb.state = StateHalfOpen)
             => /\ cb'.state = StateClosed
                /\ cb'.failureTimestamps = << >>
                /\ cb'.failureCount = 0
      /\ (cb.state = StateClosed /\ cb'.state = StateOpen)
           => gSinceClose' >= FailureThreshold ]_vars

C3_Witness ==
  /\ gReclosed
  /\ cb.state = StateClosed
  /\ gSinceClose = 0
  /\ cb.failureTimestamps = << >>
  /\ cb.failureCount = 0
  /\ \E c \in Callers : pc[c] = "done" /\ recorded[c] = <<"success">>

\* C4: a failure recorded while HalfOpen reopens the breaker whatever the
\* window holds and restarts the Open timer: admission checks are rejected
\* until more than Timeout has passed since the last recorded failure.
C4_TrialFailureReopens ==
  /\ [][\A c \in Callers :
          (RecordStep(c, "failure") /\ cb.state = StateHalfOpen)
            => (cb'.state = StateOpen /\ cb'.lastFailureTime = now)]_vars
  /\ [](InOpenPeriod("trial") => cb.state = StateOpen)
  /\ [][\A c \in Callers :
          (InOpenPeriod("trial") /\ AdmissionStep(c)) => RejectedStep(c)]_vars

C4_Witness ==
  /\ variant = SlidingWindow
  /\ InOpenPeriod("trial")
  /\ cb.state = StateOpen
  /\ countFailuresInWindow(cb.failureTimestamps, now) < FailureThreshold
  /\ \E c \in Callers : Rejected(c)

\* C5: sliding-window breaker: the breaker leaves Closed only for Open, and
\* only when FailureThreshold failures were recorded in the closed interval
\* of length FailureWindow that ends at the failure being recorded.
C5_OldFailuresDoNotCount ==
  [][(variant = SlidingWindow /\ cb.state = StateClosed
        /\ cb'.state # StateClosed)
       => /\ cb'.state = StateOpen
          /\ LoggedSince(gFailLog', now - FailureWindow) >= FailureThreshold
     ]_vars

\* FailureThreshold failures recorded, no window ever held that many: Closed.
C5_Witness ==
  /\ variant = SlidingWindow
  /\ cb.state = StateClosed
  /\ ~gReclosed
  /\ gSinceClose >= FailureThreshold
  /\ gLastFail = now

\* C9 as claimed: a denied call invokes nothing and returns ErrCircuitOpen;
\* an admitted call invokes its callable once and records one outcome.
C9_ExactlyOneOutcome ==
  \A c \in Callers :
    pc[c] = "done" =>
      IF admitted[c]
        THEN invoked[c] = 1 /\ Len(recorded[c]) = 1
        ELSE /\ invoked[c] = 0
             /\ ret[c] = [result |-> Zero, err |-> ErrCircuitOpen]

\* C9: a denied call invokes nothing, records nothing and returns
\* ErrCircuitOpen; an admitted call invokes its callable exactly once and
\* records exactly one outcome when the callable returns, none when it panics.
C9_OneOutcomeUnlessPanic ==
  \A c \in Callers :
    /\ pc[c] = "inFn" => (admitted[c] /\ invoked[c] = 1 /\ recorded[c] = << >>)
    /\ pc[c] = "done" =>
         IF admitted[c]
           THEN /\ invoked[c] = 1
                /\ Len(recorded[c]) = (IF ret[c] = Panic THEN 0 ELSE 1)
           ELSE /\ invoked[c] = 0
                /\ recorded[c] = << >>
                /\ ret[c] = [result |-> Zero, err |-> ErrCircuitOpen]

C9_Witness ==
  /\ \E c \in Callers :
       pc[c] = "done" /\ admitted[c] /\ invoked[c] = 1
         /\ recorded[c] = <<"failure">>
  /\ \E c \in Callers : Rejected(c) /\ invoked[c] = 0

\* C10: an admitted call whose callable returned (r, nil) returns (r, nil)
\* and is recorded as a success; one whose callable returned the error e
\* returns e itself and is recorded as a failure.
C10_ReturnsCallableOutcome ==
  \A c \in Callers :
    (pc[c] = "done" /\ fnOut[c] \in FnOutcomes) =>
      IF fnOut[c].err = Nil
        THEN ret[c] = [result |-> fnOut[c].result, err |-> Nil]
             /\ recorded[c] = <<"success">>
        ELSE ret[c].err = fnOut[c].err
             /\ recorded[c] = <<"failure">>

C10_Witness ==
  /\ \E c \in Callers :
       pc[c] = "done" /\ fnOut[c].err = "e1" /\ ret[c].err = "e1"
  /\ \E c \in Callers :
       pc[c] = "done" /\ fnOut[c].err = Nil /\ ret[c].result = "r1"

\* Callers that hold a slot: admitted, callable not yet returned.
Holding == {c \in Callers : pc[c] \in {"acquired", "running"}}

C7_AcquireReleaseBalanced ==
  /\ GetActiveCount = Cardinality(Holding)
  /\ (Holding = {}) => GetActiveCount = 0
  /\ \A c \in Callers :
       /\ pc[c] \in {"acquired", "running"} =>
            (acquires[c] = 1 /\ releases[c] = 0)
       /\ pc[c] \in {"released", "done"} =>
            (acquires[c] <= 1 /\ releases[c] = acquires[c])
       /\ pc[c] = "idle" => (acquires[c] = 0 /\ releases[c] = 0)

C7_Witness ==
  /\ GetActiveCount = 0
  /\ \E c \in Callers :
       pc[c] = "done" /\ ret[c] = Panic /\ acquires[c] = 1 /\ releases[c] = 1
  /\ \E c \in Callers :
       pc[c] = "done" /\ ret[c].err = "e1" /\ acquires[c] = 1
         /\ releases[c] = 1

\* C8: in ProcessPayment a call that the bulkhead rejects returns
\* ErrBulkheadFull to the caller and is not recorded as a breaker failure:
\* the breaker's state, failure history and lastFailureTime do not change.
C8_BulkheadRejectionNotRecorded ==
  [][\A c \in Callers :
       (pc[c] = "fnReturned" /\ fnOut[c].err = ErrBulkheadFull
          /\ pc'[c] = "done")
         => (cb' = cb /\ ret'[c].err = ErrBulkheadFull)]_vars

\* C11 as claimed: an Execute whose context is already done takes no slot,
\* does not invoke its callable and returns the context's error, whether or
\* not a slot is free.
C11_CancelledNeverAdmitted ==
  \A c \in Callers :
    (op[c] = "Execute" /\ ctxDone[c]) =>
      /\ acquires[c] = 0
      /\ fnCalls[c] = 0
      /\ pc[c] = "done" => ret[c].err = CtxErr

C13_NoLostUpdate ==
  /\ (variant = SlidingWindow /\ cb.state = StateClosed)
       => countFailuresInWindow(cb.failureTimestamps, now) < FailureThreshold
  /\ (variant = Counter /\ cb.state = StateClosed)
       => cb.failureCount < FailureThreshold
  /\ (variant = SlidingWindow /\ ~gReclosed)
       => countFailuresInWindow(cb.failureTimestamps, now)
            = LoggedSince(gFailLog, now - FailureWindow + 1)

\* Every caller's call has failed at this instant; one of them was admitted
\* before the failure that opened the breaker and recorded after it.
C13_Witness ==
  /\ variant = SlidingWindow
  /\ cb.state = StateOpen
  /\ \A c \in Callers :
       pc[c] = "done" /\ recorded[c] = <<"failure">>
  /\ cb.lastFailureTime = now
  /\ countFailuresInWindow(cb.failureTimestamps, now) > FailureThreshold

\* C14: GetState is a pure read: the call changes neither the breaker's
\* state, history, lastFailureTime nor the gauge, and returns the state as it
\* is, Open included when Timeout has already elapsed; Open -> HalfOpen is
\* taken only by the admission check of an Execute.
C14_GetStatePure ==
  [][ /\ (observed' # observed /\ observed' # NoSample)
           => /\ cb' = cb
              /\ circuitBreakerState' = circuitBreakerState
              /\ observed' = cb.state
      /\ (cb.state = StateOpen /\ cb'.state = StateHalfOpen)
           => \E c \in Callers : AdmissionStep(c) /\ pc'[c] = "inFn"
    ]_vars

\* GetState has just returned Open although Timeout has elapsed, and the
\* breaker is still Open.
C14_Witness ==
  /\ observed = StateOpen
  /\ cb.state = StateOpen
  /\ now - cb.lastFailureTime > Timeout

\* C15: in ProcessPayment the breaker decides first, the bulkhead second: a
\* call the breaker rejects does not consult the bulkhead (no slot, in-flight
\* count and rejection count unchanged), and makePaymentCall runs only in
\* calls admitted by the breaker and then by the bulkhead.
C15_BreakerBeforeBulkhead ==
  /\ [](\A c \in Callers :
          /\ (op[c] # "none" \/ acquires[c] > 0) => admitted[c]
          /\ (fnCalls[c] > 0 \/ pc[c] = "running")
               => (admitted[c] /\ acquires[c] = 1 /\ fnCalls[c] = 1)
          /\ Rejected(c)
               => (op[c] = "none" /\ acquires[c] = 0 /\ fnCalls[c] = 0))
  /\ [][\A c \in Callers :
          (AdmissionStep(c) /\ RejectedStep(c)) =>
            /\ semaphore' = semaphore
            /\ bulkheadActive' = bulkheadActive
            /\ bulkheadRejected' = bulkheadRejected
            /\ UNCHANGED bhCallVars]_vars

\* One payment call is in flight, admitted by both; another request has
\* been rejected by the open breaker without touching the bulkhead.
C15_Witness ==
  /\ cb.state = StateOpen
  /\ \E c \in Callers : Rejected(c) /\ op[c] = "none"
  /\ \E d \in Callers :
       pc[d] = "running" /\ admitted[d] /\ acquires[d] = 1 /\ fnCalls[d] = 1

\* C16 as claimed: a breaker constructed with a non-positive failureThreshold
\* or a bulkhead constructed with a non-positive capacity is a construction
\* error, not an instance: no call is ever made through it.
C16_NonPositiveRejectedAtConstruction ==
  /\ cb.failureThreshold <= 0
       => \A c \in Callers : pc[c] = "idle" /\ ~admitted[c]
  /\ semCap <= 0
       => (bulkheadRejected = 0 /\ \A c \in Callers : op[c] = "none")

\* C17: an Execute arriving while the breaker is Open is admitted iff
\* now - lastFailureTime > Timeout (at exactly Timeout it is rejected), and
\* Open -> HalfOpen is taken only by such an admission check, in the step
\* that admits the call.
C17_StrictTimeout ==
  [][ /\ \A c \in Callers :
           (AdmissionStep(c) /\ cb.state = StateOpen) =>
             IF now - cb.lastFailureTime > Timeout
               THEN /\ admitted'[c] /\ pc'[c] = "inFn"
                    /\ cb'.state = StateHalfOpen
               ELSE /\ RejectedStep(c) /\ ~admitted'[c]
                    /\ cb'.state = StateOpen
      /\ (cb.state = StateOpen /\ cb'.state = StateHalfOpen)
           => \E c \in Callers :
                AdmissionStep(c) /\ admitted'[c] /\ pc'[c] = "inFn"
    ]_vars

\* The trial was admitted at the first instant after the timeout (the
\* breaker cannot have become HalfOpen earlier); another call was rejected.
C17_Witness ==
  /\ cb.state = StateHalfOpen
  /\ now - cb.lastFailureTime = Timeout + 1
  /\ \E c \in Callers : pc[c] = "inFn" /\ trial[c] /\ admitted[c]
  /\ \E d \in Callers : Rejected(d)

\* C18: the breaker starts Closed, its state is always Closed, Open or
\* HalfOpen, and its state changes only by Closed -> Open and HalfOpen -> Open
\* in failure recording, Open -> HalfOpen in the admission check and
\* HalfOpen -> Closed in success recording; an outcome recorded while Open
\* leaves the state Open.
C18_OnlyListedTransitions ==
  /\ cb.state = StateClosed
  /\ [](cb.state \in {StateClosed, StateOpen, StateHalfOpen})
  /\ [][ /\ cb'.state # cb.state =>
              \/ /\ cb.state \in {StateClosed, StateHalfOpen}
                 /\ cb'.state = StateOpen
                 /\ \E c \in Callers : RecordStep(c, "failure")
              \/ /\ cb.state = StateOpen /\ cb'.state = StateHalfOpen
                 /\ \E c \in Callers : AdmissionStep(c) /\ admitted'[c]
              \/ /\ cb.state = StateHalfOpen /\ cb'.state = StateClosed
                 /\ \E c \in Callers : RecordStep(c, "success")
         /\ \A c \in Callers :
              (pc[c] = "inFn" /\ pc'[c] = "done" /\ cb.state = StateOpen)
                => cb'.state = StateOpen
       ]_vars

\* The breaker has been through Closed -> Open -> HalfOpen -> Closed and has
\* opened again.
C18_Witness ==
  /\ gReclosed
  /\ cb.state = StateOpen
  /\ gSinceClose >= FailureThreshold

\* C19 as claimed: a success recorded while the breaker is Closed leaves the
\* state, the failure history (failureTimestamps, failureCount) and
\* lastFailureTime unchanged.
C19_ClosedSuccessKeepsHistory ==
  [][\A c \in Callers :
       (RecordStep(c, "success") /\ cb.state = StateClosed) => cb' = cb]_vars

\* C20: an Execute rejected with ErrCircuitOpen leaves the breaker's state,
\* failure history and lastFailureTime (and the state gauge) unchanged and
\* records no outcome; its only effect is one increment of the counter.
C20_RejectionLeavesBreaker ==
  [][\A c \in Callers :
       (AdmissionStep(c) /\ RejectedStep(c)) =>
         /\ cb' = cb
         /\ circuitBreakerState' = circuitBreakerState
         /\ circuitBreakerFailures' = circuitBreakerFailures + 1
         /\ recorded' = recorded
         /\ UNCHANGED ghostVars]_vars

\* Every caller has been rejected some time after the last failure, and
\* lastFailureTime is still the time of that failure.
C20_Witness ==
  /\ cb.state = StateOpen
  /\ \A c \in Callers : Rejected(c)
  /\ cb.lastFailureTime = gLastFail
  /\ cb.lastFailureTime < now
  /\ now - cb.lastFailureTime <= Timeout

\* C21 as claimed: recording a failure at time now removes exactly the
\* timestamps older than now - FailureWindow: one recorded exactly
\* FailureWindow earlier is retained and counted.
C21_BoundaryFailureRetained ==
  [][\A c \in Callers :
       (variant = SlidingWindow /\ RecordStep(c, "failure")) =>
         cb'.failureTimestamps
           = SelectSeq(Append(cb.failureTimestamps, now),
                       LAMBDA ts : ts >= now - FailureWindow)]_vars

\* C22 as claimed: the breaker moves HalfOpen -> Closed only on the success
\* of a trial call, one admitted by an Open -> HalfOpen or HalfOpen check.
C22_OnlyTrialSuccessCloses ==
  [][(cb.state = StateHalfOpen /\ cb'.state = StateClosed)
       => \E c \in Callers : RecordStep(c, "success") /\ trial[c]]_vars

\* C23: lastFailureTime is always the time of the most recently recorded
\* failure; a failure recorded while the breaker is already Open leaves it
\* Open and restarts the Open period, which is measured from lastFailureTime.
C23_LastFailureTimeIsLatest ==
  /\ [](cb.lastFailureTime = gLastFail)
  /\ [][\A c \in Callers :
          RecordStep(c, "failure") =>
            /\ cb'.lastFailureTime = now
            /\ cb.state = StateOpen => cb'.state = StateOpen]_vars
  /\ [][\A c \in Callers :
          (AdmissionStep(c) /\ cb.state = StateOpen
             /\ now - gLastFail <= Timeout) => RejectedStep(c)]_vars

\* The history holds a full threshold of failures older than the one just
\* recorded: that one came from a call admitted before the trip and was
\* recorded while Open.
C23_Witness ==
  /\ variant = SlidingWindow
  /\ cb.state = StateOpen
  /\ cb.lastFailureTime = now
  /\ Len(SelectSeq(cb.failureTimestamps, LAMBDA ts : ts < now))
       >= FailureThreshold
  /\ \E c \in Callers : pc[c] = "done" /\ recorded[c] = <<"failure">>

\* C24: the breaker's lock is held only inside the admission check and the
\* outcome recording, never while a callable runs: whatever callables are in
\* flight (and however long they stay), an idle caller's Execute completes
\* its admission check at once, admitted or rejected, and GetState returns.
C24_LockNotHeldDuringCallable ==
  [](\A c \in Callers :
       /\ pc[c] \in {"idle", "inFn", "done"}
       /\ (pc[c] = "idle" /\ \E d \in Callers : pc[d] = "inFn") =>
            /\ canAttempt(cb, now).ok => ENABLED ExecuteAdmit(c)
            /\ (~canAttempt(cb, now).ok /\ circuitBreakerFailures < MaxMetric)
                 => ENABLED ExecuteReject(c)
            /\ ENABLED (GetState /\ observed' = cb.state))

\* Every caller's callable is in flight at once, and GetState has returned
\* HalfOpen, a state that exists only once a trial has been admitted.
C24_Witness ==
  /\ \A c \in Callers : pc[c] = "inFn"
  /\ cb.state = StateHalfOpen
  /\ observed = StateHalfOpen

\* C25 as claimed: the bulkhead_active gauge of the pool stays within
\* 0..capacity in every reachable state.
C25_GaugeWithinCapacity == bulkheadActive \in 0..semCap

C30_PanicRecordsNothing ==
  /\ [](\A c \in Callers :
          (pc[c] = "done" /\ ret[c] = Panic) => recorded[c] = << >>)
  /\ [][\A c \in Callers :
          (pc[c] = "inFn" /\ pc'[c] = "done" /\ ret'[c] = Panic) =>
            /\ cb' = cb
            /\ circuitBreakerState' = circuitBreakerState
            /\ circuitBreakerFailures' = circuitBreakerFailures
            /\ recorded' = recorded
            /\ UNCHANGED ghostVars]_vars

\* The trial call has panicked; no callable is in flight and the breaker is
\* still HalfOpen.
C30_Witness ==
  /\ cb.state = StateHalfOpen
  /\ \A c \in Callers : pc[c] # "inFn"
  /\ \E c \in Callers :
       pc[c] = "done" /\ admitted[c] /\ ret[c] = Panic /\ recorded[c] = << >>

\* C27: the HTTP layer maps error classes to distinct responses. An
\* order-service CreateOrder answers 503 when ProcessPayment returned
\* ErrCircuitOpen or ErrBulkheadFull, 500 for any other payment error, and
\* 200 only when makePaymentCall ran once and returned no error; an
\* api-gateway CreateOrder answers 503 on ErrCircuitOpen and 500 on any
\* other error of OrderClient.CreateOrder.
C27_StatusByErrorClass ==
  \A c \in Callers :
    (pc[c] = "responded" /\ resp[c].handler = "CreateOrder"
       /\ ret[c] # NoOutcome) =>
      IF service = OrderService
        THEN /\ ret[c].err \in {ErrCircuitOpen, ErrBulkheadFull} =>
                  resp[c].status = StatusServiceUnavailable
             /\ ret[c].err \notin {Nil, ErrCircuitOpen, ErrBulkheadFull} =>
                  resp[c].status = StatusInternalServerError
             /\ resp[c].status = StatusOK =>
                  /\ ret[c].err = Nil
                  /\ fnOut[c].err = Nil
                  /\ fnCalls[c] = 1
        ELSE /\ ret[c].err = ErrCircuitOpen =>
                  resp[c].status = StatusServiceUnavailable
             /\ ret[c].err \notin {Nil, ErrCircuitOpen} =>
                  resp[c].status = StatusInternalServerError

\* Two order-service CreateOrder requests have been answered, one with 503
\* for a full bulkhead and one with 500 for a downstream payment error.
C27_Witness ==
  /\ service = OrderService
  /\ \E c, d \in Callers :
       /\ pc[c] = "responded" /\ pc[d] = "responded"
       /\ resp[c].handler = "CreateOrder" /\ resp[d].handler = "CreateOrder"
       /\ ret[c].err = ErrBulkheadFull
       /\ resp[c].status = StatusServiceUnavailable
       /\ ret[d].err = "e1"
       /\ resp[d].status = StatusInternalServerError

\* C28: the api-gateway's GetOrder never goes through the circuit breaker.
\* It can perform its call in every breaker state, Open included, and the
\* step changes neither the breaker (state, failure history,
\* lastFailureTime) nor its metrics, and records no outcome, whether the
\* call succeeded or failed.
C28_GetOrderBypassesBreaker ==
  /\ [](\A c \in Callers :
          (service = ApiGateway /\ pc[c] = "idle") =>
            \A out \in GetOrderOutcomes : ENABLED GatewayGetOrder(c, out))
  /\ [][\A c \in Callers :
          (resp'[c].handler = "GetOrder" /\ resp[c].handler # "GetOrder"
             /\ service = ApiGateway) =>
            /\ cb' = cb
            /\ circuitBreakerState' = circuitBreakerState
            /\ circuitBreakerFailures' = circuitBreakerFailures
            /\ recorded' = recorded
            /\ admitted' = admitted
            /\ fnOut'[c] \in GetOrderOutcomes]_vars

\* While the gateway's breaker is Open, one GetOrder has been answered 200
\* and another 500, and the breaker is still Open with its history intact.
C28_Witness ==
  /\ service = ApiGateway
  /\ cb.state = StateOpen
  /\ Len(cb.failureTimestamps) >= FailureThreshold
  /\ \E c, d \in Callers :
       /\ pc[c] = "responded" /\ pc[d] = "responded"
       /\ resp[c].handler = "GetOrder" /\ resp[d].handler = "GetOrder"
       /\ resp[c].status = StatusOK
       /\ resp[d].status = StatusInternalServerError

\* C29: the order-service stores an order only after its payment
\* succeeded. The order map only grows, and only by the ID of a
\* CreateOrder that is answered 200 after ProcessPayment returned no error;
\* a CreateOrder whose payment failed or was rejected leaves the map as it
\* was; GetOrder answers 200 exactly for the IDs in the map and 404 for the
\* others.
C29_StoredOnlyAfterPayment ==
  [][/\ orders \subseteq orders'
     /\ \A c \in Callers :
          /\ (pc[c] = "done" /\ pc'[c] = "responded"
                /\ (ret[c] = Panic \/ ret[c].err # Nil)) => orders' = orders
          /\ (pc[c] = "idle" /\ resp'[c].handler = "GetOrder"
                /\ service = OrderService) =>
               /\ orders' = orders
               /\ resp'[c].status =
                    IF resp'[c].id \in orders THEN StatusOK
                                              ELSE StatusNotFound
     /\ orders' # orders =>
          \E c \in Callers :
            /\ pc[c] = "done" /\ pc'[c] = "responded"
            /\ ret[c].err = Nil /\ fnOut[c].err = Nil
            /\ resp'[c].handler = "CreateOrder"
            /\ resp'[c].status = StatusOK
            /\ orders' = orders \cup {resp'[c].id}]_vars

\* One order is stored; afterwards a CreateOrder whose payment failed has
\* been answered 500 and a GetOrder for the other ID has been answered 404.
C29_Witness ==
  /\ service = OrderService
  /\ Cardinality(orders) = 1
  /\ \E c, d \in Callers :
       /\ pc[c] = "responded" /\ pc[d] = "responded"
       /\ resp[c].handler = "CreateOrder"
       /\ ret[c].err = "e1"
       /\ resp[c].status = StatusInternalServerError
       /\ resp[d].handler = "GetOrder"
       /\ resp[d].id \notin orders
       /\ resp[d].status = StatusNotFound

\* C31: sliding-window failure history. The timestamps are in
\* non-decreasing order; whenever the history is non-empty its last element
\* equals lastFailureTime; and immediately after every recordFailure the
\* history holds only timestamps inside the window that ends at that
\* failure, the failure itself being the last of them.
C31_FailureHistoryInvariant ==
  /\ [](variant = SlidingWindow =>
          /\ \A i, j \in 1..Len(cb.failureTimestamps) :
               i <= j => cb.failureTimestamps[i] <= cb.failureTimestamps[j]
          /\ cb.failureTimestamps # << >> =>
               cb.failureTimestamps[Len(cb.failureTimestamps)]
                 = cb.lastFailureTime)
  /\ [][\A c \in Callers :
          (variant = SlidingWindow /\ RecordStep(c, "failure")) =>
            /\ cb'.failureTimestamps # << >>
            /\ cb'.failureTimestamps[Len(cb'.failureTimestamps)] = now
            /\ \A i \in 1..Len(cb'.failureTimestamps) :
                 /\ cb'.failureTimestamps[i] >= now - FailureWindow
                 /\ cb'.failureTimestamps[i] <= now]_vars

\* The breaker has never left Closed, two failures or more were recorded, and
\* the history holds only the one recorded now: the older ones were removed
\* by cleanupOldFailures when it was recorded.
C31_Witness ==
  /\ variant = SlidingWindow
  /\ cb.state = StateClosed
  /\ ~gReclosed
  /\ circuitBreakerFailures >= 2
  /\ cb.failureTimestamps = <<now>>
  /\ cb.lastFailureTime = now
  /\ \E c \in Callers : pc[c] = "done" /\ recorded[c] = <<"failure">>

\* C32: fault injector. The pair (enabled, delaySeconds) is (false, 0)
\* initially and when a Disable returns and (true, d) when Enable(d)
\* returns, and it changes only in a step of the writer holding the lock;
\* while no writer holds the lock enabled = false comes with delay 0;
\* GetStatus and Inject end their reads with the pair as it stands, no
\* writer being inside, so they never see enabled = false with a non-zero
\* delay; a sleeping Inject has read (true, delay > 0) and holds no lock:
\* with every other goroutine idle, sleeping or returned, Enable, Disable
\* and GetStatus take the lock at once.
C32_InjectorPairConsistent ==
  /\ (enabled = FALSE /\ delaySeconds = 0)
  /\ [](/\ mu.writer = 0 => (enabled \/ delaySeconds = 0)
        /\ \A g \in Callers :
             /\ ipc[g] = "runlock" =>
                  /\ mu.writer = 0
                  /\ seen[g] = [enabled |-> enabled, delay |-> delaySeconds]
             /\ (ipc[g] \in {"runlock", "sleeping", "returned"}
                   /\ iop[g] \in {"GetStatus", "Inject"}) =>
                  (seen[g].enabled \/ seen[g].delay = 0)
             /\ ipc[g] = "sleeping" =>
                  /\ g \notin mu.readers
                  /\ mu.writer # g
                  /\ seen[g].enabled
                  /\ seen[g].delay > 0
             /\ (ipc[g] = "idle"
                   /\ \A h \in Callers \ {g} :
                        ipc[h] \in {"idle", "sleeping", "returned"}) =>
                  /\ \A d \in Delays : ENABLED EnableLock(g, d)
                  /\ ENABLED DisableLock(g)
                  /\ ENABLED GetStatusRLock(g))
  /\ [][\A g \in Callers :
          (ipc[g] = "unlock" /\ ipc'[g] = "returned") =>
            /\ enabled' = (iop[g] = "Enable")
            /\ delaySeconds' = IF iop[g] = "Enable" THEN iarg[g] ELSE 0]_vars
  /\ [][(enabled' # enabled \/ delaySeconds' # delaySeconds) =>
          /\ mu.writer # 0
          /\ mu' = mu
          /\ ipc'[mu.writer] # ipc[mu.writer]]_vars

\* Enable(d) with d > 0 was followed by an Inject that is still sleeping on
\* the pair (true, d); meanwhile another goroutine has run Disable and its
\* GetStatus has returned (false, 0).
C32_Witness ==
  /\ enabled = FALSE
  /\ delaySeconds = 0
  /\ mu = [writer |-> 0, readers |-> {}]
  /\ \E g, h \in Callers :
       /\ ipc[g] = "sleeping"
       /\ seen[g].enabled
       /\ seen[g].delay = MaxDelay
       /\ ipc[h] = "returned"
       /\ iop[h] = "GetStatus"
       /\ seen[h] = [enabled |-> FALSE, delay |-> 0]

====
